---- MODULE Spec2Model ----
(***************************************************************************)
(* Model of espei/error_functions/activity_error.py: the activity residual *)
(* function of ESPEI (ActivityResidual, calculate_activity_residuals,      *)
(* calculate_activity_error, target_chempots_from_activity).               *)
(*                                                                         *)
(* Floating point numbers are modelled by exact rationals extended with    *)
(* NaN, +inf and -inf, with IEEE-754 rules for the non-finite values.      *)
(* The equilibrium engine (pycalphad Workspace) is a deterministic         *)
(* function of the database symbols it is built on and of its components,  *)
(* phases and conditions.                                                  *)
(***************************************************************************)
EXTENDS Integers, Sequences, FiniteSets, TLC

VARIABLES
    dbf_symbols,     \* database.symbols: symbol name -> value
    dbf_phases,      \* database.phases: phase name -> sublattice constituents
    dbf_elements,    \* database.elements
    v_namespace,     \* attribute names of the pycalphad.variables module
    datasets,        \* the dataset store: a sequence of records
    weight_arg,      \* the weight argument given to __init__
    self_weight,     \* self.weight
    symbols_to_fit,  \* self._symbols_to_fit
    kw_comps,        \* self._activity_likelihood_kwargs["comps"]
    kw_phases,       \* self._activity_likelihood_kwargs["phases"]
    ret,             \* what the last call returned, with its oracle log
    repeated,        \* whether a call was made before the last one
    threads          \* the calls in flight (concurrent specification)

vars == <<dbf_symbols, dbf_phases, dbf_elements, v_namespace, datasets,
          weight_arg, self_weight, symbols_to_fit, kw_comps, kw_phases,
          ret, repeated, threads>>

(***************************************************************************)
(* Bounds of the model.                                                    *)
(***************************************************************************)
MaxStore == 2    \* most records in the dataset store
MaxFit == 2      \* most fit parameters

(***************************************************************************)
(* Floats.                                                                 *)
(***************************************************************************)
Abs(n) == IF n < 0 THEN -n ELSE n

RECURSIVE Gcd(_, _)
Gcd(a, b) == IF b = 0 THEN Abs(a) ELSE Gcd(b, a % b)

\* n/d in lowest terms with a positive denominator (d # 0)
Rat(n, d) ==
    LET g == Gcd(Abs(n), Abs(d))
        s == IF d < 0 THEN -1 ELSE 1
    IN  [k |-> "fin", n |-> (s * n) \div g, d |-> Abs(d) \div g]

Fin(n) == [k |-> "fin", n |-> n, d |-> 1]
NaN == [k |-> "nan", n |-> 0, d |-> 1]
PosInf == [k |-> "inf", n |-> 1, d |-> 1]
NegInf == [k |-> "inf", n |-> -1, d |-> 1]

IsNan(x) == x.k = "nan"
IsFinite(x) == x.k = "fin"
Sign(x) == IF x.n > 0 THEN 1 ELSE IF x.n < 0 THEN -1 ELSE 0

FNeg(x) == IF x.k = "nan" THEN NaN ELSE [x EXCEPT !.n = -x.n]

FAdd(x, y) ==
    IF x.k = "nan" \/ y.k = "nan" THEN NaN
    ELSE IF x.k = "inf" /\ y.k = "inf" THEN (IF x.n = y.n THEN x ELSE NaN)
    ELSE IF x.k = "inf" THEN x
    ELSE IF y.k = "inf" THEN y
    ELSE LET g == Gcd(x.d, y.d)
             l == (x.d \div g) * y.d
         IN  Rat(x.n * (l \div x.d) + y.n * (l \div y.d), l)

FSub(x, y) == FAdd(x, FNeg(y))

FMul(x, y) ==
    IF x.k = "nan" \/ y.k = "nan" THEN NaN
    ELSE IF x.k = "inf" \/ y.k = "inf"
         THEN (IF Sign(x) * Sign(y) = 0 THEN NaN
               ELSE IF Sign(x) * Sign(y) > 0 THEN PosInf ELSE NegInf)
    ELSE LET g1 == Gcd(Abs(x.n), y.d)
             g2 == Gcd(Abs(y.n), x.d)
         IN  Rat((x.n \div g1) * (y.n \div g2), (x.d \div g2) * (y.d \div g1))

\* numpy true division
FDiv(x, y) ==
    IF x.k = "nan" \/ y.k = "nan" THEN NaN
    ELSE IF y.k = "inf" THEN (IF x.k = "inf" THEN NaN ELSE Fin(0))
    ELSE IF y.n = 0
         THEN (IF Sign(x) = 0 THEN NaN
               ELSE IF Sign(x) > 0 THEN PosInf ELSE NegInf)
    ELSE FMul(x, Rat(y.d, y.n))

FLess(x, y) ==
    /\ x.k # "nan" /\ y.k # "nan"
    /\ IF x.k = "inf" THEN x.n < 0 /\ y # x
       ELSE IF y.k = "inf" THEN y.n > 0
       ELSE x.n * y.d < y.n * x.d

\* the natural logarithm of a positive integer, to the nearest integer
LnInt(n) ==
    IF n <= 1 THEN 0 ELSE IF n <= 4 THEN 1 ELSE IF n <= 12 THEN 2
    ELSE IF n <= 33 THEN 3 ELSE 4

\* numpy.log
FLog(x) ==
    IF x.k = "nan" THEN NaN
    ELSE IF x.k = "inf" THEN (IF x.n > 0 THEN PosInf ELSE NaN)
    ELSE IF x.n < 0 THEN NaN
    ELSE IF x.n = 0 THEN NegInf
    ELSE Fin(LnInt(x.n) - LnInt(x.d))

\* the gas constant pycalphad.variables.R = 8.3145 J/(mol K)
R == Rat(83145, 10000)

(***************************************************************************)
(* Names.  Component and phase names are strings; an output tag is the     *)
(* sequence of its characters, so that the substring test and the split    *)
(* at "_" are computed as the code computes them.                          *)
(***************************************************************************)
NameOrder == <<"A", "B", "C", "FCC_A1", "LAVES", "LIQUID", "VA">>

\* sorted(S) for a set of names
Sorted(S) == SelectSeq(NameOrder, LAMBDA x : x \in S)

Range(s) == {s[i] : i \in DOMAIN s}

\* sub in x, for sequences of characters
Contains(x, sub) ==
    \E i \in 0..(Len(x) - Len(sub)) :
        \A j \in 1..Len(sub) : x[i + j] = sub[j]

\* x.split(sep) for a one-character separator
RECURSIVE SplitFrom(_, _, _, _)
SplitFrom(x, sep, i, cur) ==
    IF i > Len(x) THEN <<cur>>
    ELSE IF x[i] = sep THEN <<cur>> \o SplitFrom(x, sep, i + 1, <<>>)
    ELSE SplitFrom(x, sep, i + 1, Append(cur, x[i]))

Split(x, sep) == SplitFrom(x, sep, 1, <<>>)

\* component names are one character long in the model
acr_component_of(ds) == Split(ds.output, "_")[2][1]

\* pycalphad.plot.eqplot._map_coord_to_variable on the coordinates used
map_coord_to_variable(coord) ==
    CASE coord = "T" -> "v.T"
      [] coord = "P" -> "v.P"
      [] coord = "X_A" -> "v.X(A)"
      [] coord = "X_B" -> "v.X(B)"
      [] coord = "X_C" -> "v.X(C)"
      [] OTHER -> coord

(***************************************************************************)
(* The database.                                                           *)
(***************************************************************************)
FitNames == <<"VV0000", "VV0001", "VV0002", "VV0003">>

ParamNum(key) == CHOOSE i \in DOMAIN FitNames : FitNames[i] = key

\* the parameters the database's model is written in
ModelParams == {FitNames[i] : i \in 1..MaxFit}

DbSymbols0 ==
    [s \in ModelParams \cup {"GHSERAA"} |->
        IF s = "GHSERAA" THEN -7 ELSE 10 * ParamNum(s)]

DbElements0 == {"A", "B", "C", "VA"}

DbPhases0 ==
    [ph \in {"LIQUID", "FCC_A1", "LAVES"} |->
        CASE ph = "LIQUID" -> <<{"A", "B", "C"}>>
          [] ph = "FCC_A1" -> <<{"A", "B"}, {"VA"}>>
          [] ph = "LAVES" -> <<{"C"}, {"A"}>>]

Namespace0 == {"T", "P", "R", "X", "MU", "IndependentPotential"}

\* pycalphad.core.utils.unpack_species for a database of elemental species
unpack_species(elements, comps) == {s \in elements : s \in Range(comps)}

\* pycalphad.core.utils.filter_phases: the candidate phases every sublattice
\* of which can hold one of the species, sorted
filter_phases(phases_of, species, candidate_phases) ==
    Sorted({ph \in Range(candidate_phases) :
              \A i \in DOMAIN phases_of[ph] : phases_of[ph][i] \cap species # {}})

(***************************************************************************)
(* The dataset store.  Temperatures are in K, pressures in Pa and          *)
(* compositions in percent.  values is indexed [P][T][X].                  *)
(***************************************************************************)
ACR_(c) == <<"A", "C", "R", "_", c>>

Pool == <<
    [components |-> <<"A", "B", "VA">>, output |-> ACR_("B"),
     conditions |-> [P |-> <<101325>>, T |-> <<1000, 1200>>, X_B |-> <<30>>],
     values |-> << << <<Rat(1, 3)>>, <<Fin(1)>> >> >>,
     reference_state |-> [phases |-> <<"LIQUID">>,
                          conditions |-> [P |-> 101325, T |-> 1000, X_B |-> 100]],
     reference |-> "first"],
    [components |-> <<"A", "B", "VA">>, output |-> ACR_("A"),
     conditions |-> [P |-> <<101325>>, T |-> <<900>>, X_B |-> <<10, 50>>],
     values |-> << << <<Fin(1), Rat(2, 3)>> >> >>,
     reference_state |-> [phases |-> <<"FCC_A1">>,
                          conditions |-> [P |-> 101325, T |-> 900, X_B |-> 0]],
     weight |-> 2,
     reference |-> "second"],
    [components |-> <<"A", "B", "VA">>, output |-> <<"Z", "P", "F">>,
     reference |-> "third"],
    [components |-> <<"B", "C", "VA">>, output |-> ACR_("C"),
     conditions |-> [P |-> <<101325>>, T |-> <<800>>, X_C |-> <<20, 40>>],
     values |-> << << <<Fin(0), Fin(1)>> >> >>,
     reference_state |-> [phases |-> <<"LIQUID">>,
                          conditions |-> [P |-> 101325, T |-> 800, X_C |-> 100]],
     reference |-> "fourth"],
    [components |-> <<"A", "B", "VA">>, output |-> ACR_("B"),
     conditions |-> [P |-> <<101325>>, T |-> <<1100>>, X_B |-> <<60>>],
     values |-> << << <<Rat(-1, 3)>> >> >>,
     reference_state |-> [phases |-> <<"LIQUID">>,
                          conditions |-> [P |-> 101325, T |-> 1100, X_B |-> 100]],
     weight |-> 4,
     reference |-> "fifth"],
    [components |-> <<"A", "C", "VA">>, output |-> ACR_("A"),
     conditions |-> [P |-> <<101325>>, T |-> <<700>>, X_C |-> <<50>>],
     values |-> << << <<Fin(1)>> >> >>,
     reference_state |-> [phases |-> <<>>,
                          conditions |-> [P |-> 101325, T |-> 700, X_C |-> 0]],
     reference |-> "sixth"] >>

\* the stores: up to MaxStore records of the pool, in pool order
Stores ==
    LET idx == UNION {[1..n -> DOMAIN Pool] : n \in 0..MaxStore}
        inc == {s \in idx : \A i \in DOMAIN s : i = 1 \/ s[i - 1] < s[i]}
    IN  {[i \in DOMAIN s |-> Pool[s[i]]] : s \in inc}

\* dict.get(key, default)
DictGet(d, key, default) == IF key \in DOMAIN d THEN d[key] ELSE default

\* a faulty selector, which forgets the test on the components
tag_only_dataset(ds, comps) == Contains(ds.output, <<"A", "C", "R">>)

\* datasets.search(where('output').test('ACR' in x) &
\*                 where('components').test(set(x).issubset(comps)))
is_activity_dataset(ds, comps) ==
    /\ Contains(ds.output, <<"A", "C", "R">>)
    /\ Range(ds.components) \subseteq Range(comps)

search(store, comps) == SelectSeq(store, LAMBDA ds : is_activity_dataset(ds, comps))

(***************************************************************************)
(* espei.core_utils.ravel_conditions: the conditions broadcast against     *)
(* the shape of values and flattened in row-major order.                   *)
(***************************************************************************)
NSamples(values) == Len(values) * Len(values[1]) * Len(values[1][1])

PIdx(values, i) == (i - 1) \div (Len(values[1]) * Len(values[1][1])) + 1
TIdx(values, i) == (((i - 1) \div Len(values[1][1])) % Len(values[1])) + 1
XIdx(values, i) == ((i - 1) % Len(values[1][1])) + 1

ravel_conditions(values, P, T, X) ==
    [P |-> [i \in 1..NSamples(values) |-> P[PIdx(values, i)]],
     T |-> [i \in 1..NSamples(values) |-> T[TIdx(values, i)]],
     X |-> [i \in 1..NSamples(values) |-> X[XIdx(values, i)]]]

\* np.array(values).flatten()
Flatten(values) ==
    [i \in 1..NSamples(values) |->
        values[PIdx(values, i)][TIdx(values, i)][XIdx(values, i)]]

(***************************************************************************)
(* The equilibrium engine.  A Workspace is built on the shared database,   *)
(* whose symbols it reads when a property is asked for.  A model parameter *)
(* that is a symbol of the database takes the database's value; otherwise  *)
(* it takes the value given for it in the conditions.                      *)
(***************************************************************************)
Workspace(components, phases, conditions) ==
    [components |-> components, phases |-> phases, conditions |-> conditions]

RECURSIVE ISum(_)
ISum(s) == IF s = <<>> THEN 0 ELSE s[1] + ISum(Tail(s))

CondOr0(w, key) == DictGet(w.conditions, key, 0)

XSum(w) == CondOr0(w, "v.X(A)") + CondOr0(w, "v.X(B)") + CondOr0(w, "v.X(C)")

CompNum(comp) == CHOOSE i \in DOMAIN NameOrder : NameOrder[i] = comp

\* the model's sensitivity to one parameter at the workspace's conditions
Coef(w, key, comp) == ParamNum(key) * (XSum(w) \div 10) + CompNum(comp)

Bound(symbols, w, key) == key \in DOMAIN symbols \/ key \in DOMAIN w.conditions

ParamVal(symbols, w, key) ==
    IF key \in DOMAIN symbols THEN symbols[key] ELSE w.conditions[key]

Solvable(symbols, w) ==
    /\ w.phases # <<>>
    /\ \A key \in ModelParams : Bound(symbols, w, key)

\* wks.get(v.MU(comp))
WksGetMU(symbols, w, comp) ==
    IF ~Solvable(symbols, w) THEN NaN
    ELSE Fin(7 * CompNum(comp) + 11 * Len(w.phases) + 13 * Len(w.components)
             - (CondOr0(w, "v.T") \div 10) + 3 * XSum(w)
             + (CondOr0(w, "v.P") \div 1000)
             + ISum([i \in 1..MaxFit |->
                       ParamVal(symbols, w, FitNames[i]) * Coef(w, FitNames[i], comp)]))

\* wks.get(JanssonDerivative(v.MU(comp), key))
WksGetDMU(symbols, w, comp, key) ==
    IF ~Solvable(symbols, w) THEN NaN
    ELSE IF key \in DOMAIN symbols \/ key \notin ModelParams THEN Fin(0)
    ELSE Fin(Coef(w, key, comp))

\* wks.get(*gradient_props) followed by the conversion of lines 59-62 and
\* 143-146: one property gives a bare number, otherwise a list is returned
WksGetGrads(symbols, w, comp, keys) ==
    [ndim |-> IF Len(keys) = 1 THEN 0 ELSE 1,
     data |-> [j \in 1..Len(keys) |-> WksGetDMU(symbols, w, comp, keys[j])]]

(***************************************************************************)
(* calculate_activity_residuals                                            *)
(***************************************************************************)
std_dev == 500

Raised == [k |-> "raise", n |-> 0, d |-> 1]

\* x / y on Python numbers: a zero divisor raises ZeroDivisionError
PyDiv(x, y) ==
    IF x.k = "raise" THEN x ELSE IF y.n = 0 THEN Raised ELSE FDiv(x, y)

\* the parameters dict built by get_residuals and get_likelihood
MakeParameters(names, vec) ==
    LET m == IF Len(names) < Len(vec) THEN Len(names) ELSE Len(vec)
    IN  [keys |-> SubSeq(names, 1, m), vals |-> SubSeq(vec, 1, m)]

ParamMap(p) ==
    [key \in Range(p.keys) |-> p.vals[CHOOSE i \in DOMAIN p.keys : p.keys[i] = key]]

\* conds.update(parameters)
Update(conds, p) ==
    [c \in DOMAIN conds \cup Range(p.keys) |->
        IF c \in Range(p.keys) THEN ParamMap(p)[c] ELSE conds[c]]

\* setattr(v, key, ...) for every key that v does not have yet
RegisterSymbols(namespace, keys) == namespace \cup Range(keys)

\* faulty removals, which leave the symbol table as it was
KeepOne(symbols, key) == symbols

KeepSymbols(symbols, keys) == symbols

\* dbf.symbols.pop(key, None)
PopOne(symbols, key) == [s \in DOMAIN symbols \ {key} |-> symbols[s]]

\* dbf.symbols.pop(key, None) for every key
PopSymbols(symbols, keys) ==
    [s \in DOMAIN symbols \ Range(keys) |-> symbols[s]]

\* a faulty order, in which the solves run before the keys are popped
UnpoppedSymbols(symbols, keys) == symbols

\* the database symbols as the solves of a call find them: the loop of
\* lines 88-93 has popped the call's keys before any Workspace is built
SolveSymbols(symbols, keys) == PopSymbols(symbols, keys)

\* the condition dicts of the ravelled sample points
conditions_list(ds) ==
    LET names == DOMAIN ds.conditions \ {"P", "T"}
        last == CHOOSE nm \in names : TRUE
        rav(nm) == ravel_conditions(ds.values, ds.conditions.P,
                                    ds.conditions.T, ds.conditions[nm])
    IN  [i \in 1..Len(rav(last).T) |->
            [c \in {"v.P", "v.T"} \cup {map_coord_to_variable(nm) : nm \in names} |->
                IF c = "v.P" THEN rav(last).P[i]
                ELSE IF c = "v.T" THEN rav(last).T[i]
                ELSE rav(CHOOSE nm \in names : map_coord_to_variable(nm) = c).X[i]]]

\* the reference-state Workspace of a dataset
wks_ref_of(ds, p) ==
    LET ref == ds.reference_state
        ref_conditions ==
            [c \in {map_coord_to_variable(coord) : coord \in DOMAIN ref.conditions} |->
                ref.conditions[CHOOSE coord \in DOMAIN ref.conditions :
                                  map_coord_to_variable(coord) = c]]
    IN  Workspace(ds.components, ref.phases, Update(ref_conditions, p))

\* a faulty choice of phases, which skips the filter
all_active_phases(phases_of, elements, ds, phases) == phases

\* the phases of the subsystem of the data
data_phases_of(phases_of, elements, ds, phases) ==
    filter_phases(phases_of, unpack_species(elements, ds.components), phases)

\* the Workspace of a sample point of a dataset
wks_sample_of(ds, data_phases, conds, p) ==
    Workspace(ds.components, data_phases, Update(conds, p))

\* a faulty weight, which multiplies where the code divides
sample_weight_times(data_weight, ds) ==
    FMul(FMul(Fin(std_dev), Fin(data_weight)), Fin(DictGet(ds, "weight", 1)))

\* the weight of a sample of a dataset
sample_weight(data_weight, ds) ==
    PyDiv(PyDiv(Fin(std_dev), Fin(data_weight)), Fin(DictGet(ds, "weight", 1)))

\* a faulty target, which leaves out the reference chemical potential
target_without_reference(symbols, component, p, target_activity, temperatures, wks_ref) ==
    [exp_chem_pots |->
        [i \in DOMAIN target_activity |->
            FMul(FMul(R, Fin(temperatures[i])), FLog(target_activity[i]))],
     ref_grads |-> WksGetGrads(symbols, wks_ref, component, p.keys)]

\* lines 33-63
target_chempots_from_activity(symbols, component, p, target_activity, temperatures, wks_ref) ==
    LET ref_chempot == WksGetMU(symbols, wks_ref, component)
    IN  [exp_chem_pots |->
            [i \in DOMAIN target_activity |->
                FAdd(FMul(FMul(R, Fin(temperatures[i])), FLog(target_activity[i])),
                     ref_chempot)],
         ref_grads |-> WksGetGrads(symbols, wks_ref, component, p.keys)]

\* np.asarray(element) - np.asarray(ref_grads)
GradSub(element, ref_grads) ==
    [ndim |-> element.ndim,
     data |-> [j \in DOMAIN element.data |-> FSub(element.data[j], ref_grads.data[j])]]

LogEntry(kind, ds, w) ==
    [kind |-> kind, dataset |-> ds.reference, components |-> w.components,
     phases |-> w.phases, conditions |-> w.conditions]

\* one pass of the loop over the activity datasets (lines 102-159)
DatasetEval(symbols, phases_of, elements, phases, ds, p, data_weight) ==
    LET acr_component == acr_component_of(ds)
        data_phases == data_phases_of(phases_of, elements, ds, phases)
        wks_ref == wks_ref_of(ds, p)
        conds == conditions_list(ds)
        N == Len(conds)
        wks == [i \in 1..N |-> wks_sample_of(ds, data_phases, conds[i], p)]
        weight == sample_weight(data_weight, ds)
        target == target_chempots_from_activity(symbols, acr_component, p,
                      Flatten(ds.values), [i \in 1..N |-> conds[i]["v.T"]], wks_ref)
    IN  IF N >= 1 /\ weight.k = "raise"
        THEN [raised |-> TRUE, residuals |-> <<>>, weights |-> <<>>, gradients |-> <<>>,
              calls |-> <<LogEntry("reference", ds, wks_ref), LogEntry("sample", ds, wks[1])>>]
        ELSE [raised |-> FALSE,
              residuals |-> [i \in 1..N |->
                  FSub(WksGetMU(symbols, wks[i], acr_component), target.exp_chem_pots[i])],
              weights |-> [i \in 1..N |-> weight],
              gradients |-> [i \in 1..N |->
                  GradSub(WksGetGrads(symbols, wks[i], acr_component, p.keys),
                          target.ref_grads)],
              calls |-> <<LogEntry("reference", ds, wks_ref)>>
                        \o [i \in 1..N |-> LogEntry("sample", ds, wks[i])]]

\* the loop's accumulators after one more dataset; an exception ends the loop
Accumulate(acc, e) ==
    IF acc.raised THEN acc
    ELSE [raised |-> e.raised,
          residuals |-> acc.residuals \o e.residuals,
          weights |-> acc.weights \o e.weights,
          gradients |-> IF e.raised THEN acc.gradients
                        ELSE Append(acc.gradients, e.gradients),
          calls |-> acc.calls \o e.calls]

RECURSIVE EvalLoop(_, _, _, _, _, _, _, _, _)
EvalLoop(symbols, phases_of, elements, phases, dss, j, p, data_weight, acc) ==
    IF j > Len(dss) \/ acc.raised THEN acc
    ELSE EvalLoop(symbols, phases_of, elements, phases, dss, j + 1, p, data_weight,
                  Accumulate(acc, DatasetEval(symbols, phases_of, elements, phases,
                                              dss[j], p, data_weight)))

calculate_activity_residuals(symbols, namespace, phases_of, elements, comps, phases, store, p, data_weight) ==
    LET out == EvalLoop(SolveSymbols(symbols, p.keys), phases_of, elements, phases,
                        search(store, comps), 1, p, data_weight,
                        [raised |-> FALSE, residuals |-> <<>>, weights |-> <<>>,
                         gradients |-> <<>>, calls |-> <<>>])
    IN  [raised |-> out.raised,
         residuals |-> IF out.raised THEN <<>> ELSE out.residuals,
         weights |-> IF out.raised THEN <<>> ELSE out.weights,
         gradients |-> IF out.raised THEN <<>> ELSE out.gradients,
         calls |-> out.calls,
         symbols |-> PopSymbols(symbols, p.keys),
         namespace |-> RegisterSymbols(namespace, p.keys)]

(***************************************************************************)
(* calculate_activity_error                                                *)
(*                                                                         *)
(* A finite Gaussian log-density is transcendental: a finite sum of them   *)
(* is kept exactly, as the sequence of its (residual, scale) terms; the    *)
(* empty sum is 0.0.                                                       *)
(***************************************************************************)
LFin(terms) == [k |-> "fin", n |-> 0, terms |-> terms]
LNaN == [k |-> "nan", n |-> 0, terms |-> <<>>]
LNegInf == [k |-> "inf", n |-> -1, terms |-> <<>>]

\* the kind of norm(0, scale).logpdf(x): NaN for a scale that is not
\* positive or a NaN argument, -inf for an infinite argument
LogPdfKind(x, scale) ==
    IF x.k = "nan" \/ scale.k = "nan" \/ scale.n <= 0 THEN "nan"
    ELSE IF x.k = "inf" \/ scale.k = "inf" THEN "inf"
    ELSE "fin"

\* np.sum(norm(0, scale=weights).logpdf(residuals))
LogPdfSum(weights, residuals) ==
    LET kinds == {LogPdfKind(residuals[i], weights[i]) : i \in DOMAIN residuals}
    IN  IF "nan" \in kinds THEN LNaN
        ELSE IF "inf" \in kinds THEN LNegInf
        ELSE LFin([i \in DOMAIN residuals |-> [x |-> residuals[i], scale |-> weights[i]]])

RECURSIVE Concat(_)
Concat(ss) == IF ss = <<>> THEN <<>> ELSE ss[1] \o Concat(Tail(ss))

\* np.sum along one axis, accumulated from the left
RECURSIVE FSumFrom(_, _, _)
FSumFrom(s, i, acc) ==
    IF i > Len(s) THEN acc ELSE FSumFrom(s, i + 1, FAdd(acc, s[i]))

FSum(s) == FSumFrom(s, 1, Fin(0))

\* np.zeros(n)
Zeros(n) == [ndim |-> 1, data |-> [j \in 1..n |-> Fin(0)]]

\* lines 198-206: the gradient of the likelihood
likelihood_grads_of(residuals, weights, gradients) ==
    IF Len(gradients) = 0 THEN [ndim |-> 1, data |-> <<>>]
    ELSE LET rows == Concat(gradients)
             deriv(i, j) ==
                 FDiv(FMul(FNeg(residuals[i]), rows[i].data[j]),
                      FMul(weights[i], weights[i]))
         IN  IF \A i \in DOMAIN rows : rows[i].ndim = 0
             THEN [ndim |-> 0,
                   data |-> <<FSum([i \in DOMAIN rows |-> deriv(i, 1)])>>]
             ELSE [ndim |-> 1,
                   data |-> [j \in DOMAIN rows[1].data |->
                                FSum([i \in DOMAIN rows |-> deriv(i, j)])]]

\* lines 197-212, applied to what calculate_activity_residuals returned
\* for a call with nparams parameters
calculate_activity_error(r, nparams) ==
    LET likelihood == LogPdfSum(r.weights, r.residuals)
    IN  IF r.raised
        THEN [raised |-> TRUE, likelihood |-> LNaN, grads |-> Zeros(0)]
        ELSE IF likelihood.k = "nan"
        THEN [raised |-> FALSE, likelihood |-> LNegInf, grads |-> Zeros(nparams)]
        ELSE [raised |-> FALSE, likelihood |-> likelihood,
              grads |-> likelihood_grads_of(r.residuals, r.weights, r.gradients)]

(***************************************************************************)
(* ActivityResidual                                                        *)
(***************************************************************************)
None == [none |-> TRUE]

\* the weight arguments tried: none, a mapping without "ACR", mappings
\* with a positive, a negative and a zero "ACR" entry
WeightArgs ==
    {None, [ZPF |-> 3], [ACR |-> 2, ZPF |-> 3], [ACR |-> -1], [ACR |-> 0]}

\* phase_models.components, when phase models are given
PhaseModelComponents == {None, [components |-> {"A", "B", "VA"}]}

ParamValues == {0, 2}

\* lines 235-238
init_weight(weight) ==
    IF weight # None THEN DictGet(weight, "ACR", 1) ELSE 1

\* lines 240-245
init_comps(phase_models, elements) ==
    IF phase_models # None THEN Sorted(phase_models.components) ELSE Sorted(elements)

\* line 246
init_phases(phases_of, elements, comps) ==
    Sorted(Range(filter_phases(phases_of, unpack_species(elements, comps),
                               Sorted(DOMAIN phases_of))))

NoRet ==
    [op |-> "none", params |-> <<>>, raised |-> FALSE, residuals |-> <<>>,
     weights |-> <<>>, likelihood |-> LFin(<<>>), grads |-> Zeros(0), calls |-> <<>>]

\* the state after ActivityResidual(database, datasets, phase_models,
\* symbols_to_fit, weight)
Init ==
    /\ dbf_symbols = DbSymbols0
    /\ dbf_phases = DbPhases0
    /\ dbf_elements = DbElements0
    /\ v_namespace = Namespace0
    /\ datasets \in Stores
    /\ weight_arg \in WeightArgs
    /\ self_weight = init_weight(weight_arg)
    /\ \E n \in 0..MaxFit : symbols_to_fit = SubSeq(FitNames, 1, n)
    /\ \E pm \in PhaseModelComponents :
          /\ kw_comps = init_comps(pm, dbf_elements)
          /\ kw_phases = init_phases(dbf_phases, dbf_elements, kw_comps)
    /\ ret = NoRet
    /\ repeated = FALSE
    /\ threads = <<>>

\* the parameter vectors: one value per fit parameter
Vectors == [1..Len(symbols_to_fit) -> ParamValues]

Config == <<dbf_phases, dbf_elements, datasets, weight_arg, self_weight,
            symbols_to_fit, kw_comps, kw_phases>>

\* the call of calculate_activity_residuals made by both methods
Residuals(vec) ==
    calculate_activity_residuals(dbf_symbols, v_namespace, dbf_phases, dbf_elements,
        kw_comps, kw_phases, datasets, MakeParameters(symbols_to_fit, vec), self_weight)

get_residuals(vec) ==
    \E r \in {Residuals(vec)} :
        /\ dbf_symbols' = r.symbols
        /\ v_namespace' = r.namespace
        /\ ret' = [op |-> "get_residuals", params |-> vec, raised |-> r.raised,
                   residuals |-> r.residuals, weights |-> r.weights,
                   likelihood |-> LFin(<<>>), grads |-> Zeros(0), calls |-> r.calls]
        /\ repeated' = (ret.op # "none")
        /\ UNCHANGED <<Config, threads>>

get_likelihood(vec) ==
    \E r \in {Residuals(vec)} :
      \E e \in {calculate_activity_error(r, Len(MakeParameters(symbols_to_fit, vec).keys))} :
        /\ dbf_symbols' = r.symbols
        /\ v_namespace' = r.namespace
        /\ ret' = [op |-> "get_likelihood", params |-> vec, raised |-> e.raised,
                   residuals |-> r.residuals, weights |-> r.weights,
                   likelihood |-> e.likelihood, grads |-> e.grads, calls |-> r.calls]
        /\ repeated' = (ret.op # "none")
        /\ UNCHANGED <<Config, threads>>

Next ==
    \/ \E vec \in Vectors : get_residuals(vec)
    \/ \E vec \in Vectors : get_likelihood(vec)

Spec == Init /\ [][Next]_vars

(***************************************************************************)
(* Concurrent calls on one ActivityResidual.  Every caller runs the body   *)
(* of calculate_activity_residuals on its own parameters dict; what the    *)
(* callers share is the namespace v and the symbol table of the database.  *)
(* A caller's steps are the accesses to the shared objects: hasattr,       *)
(* setattr and pop for each key (lines 88-93), and for each dataset the    *)
(* reads of the symbol table made for the reference Workspace (line 113),  *)
(* for each sample (lines 138-142) and for the target (line 150).  The     *)
(* reads of one dataset are kept; a dataset whose reads disagree has no    *)
(* result that one table explains, and the call is marked torn.            *)
(***************************************************************************)
Callers == {"c1", "c2"}

Idle ==
    [pc |-> "idle", op |-> "none", vec |-> <<>>, i |-> 1, j |-> 1, s |-> 1,
     seen |-> {}, torn |-> FALSE,
     acc |-> [raised |-> FALSE, residuals |-> <<>>, weights |-> <<>>,
              gradients |-> <<>>, calls |-> <<>>],
     result |-> NoRet]

InitConc ==
    /\ dbf_symbols = DbSymbols0
    /\ dbf_phases = DbPhases0
    /\ dbf_elements = DbElements0
    /\ v_namespace = Namespace0
    /\ datasets = SubSeq(Pool, 1, MaxStore)
    /\ weight_arg = None
    /\ self_weight = init_weight(weight_arg)
    /\ symbols_to_fit = SubSeq(FitNames, 1, MaxFit)
    /\ kw_comps = init_comps(None, dbf_elements)
    /\ kw_phases = init_phases(dbf_phases, dbf_elements, kw_comps)
    /\ ret = NoRet
    /\ repeated = FALSE
    /\ threads = [t \in Callers |-> Idle]

\* the activity datasets of the call (lines 95-97)
activity_datasets == search(datasets, kw_comps)

\* where a caller goes once it is past key i - 1
AfterKey(th, i) ==
    IF i <= Len(symbols_to_fit) THEN [th EXCEPT !.pc = "hasattr", !.i = i]
    ELSE IF Len(activity_datasets) = 0 THEN [th EXCEPT !.pc = "return", !.i = i]
    ELSE [th EXCEPT !.pc = "reference", !.i = i, !.j = 1, !.seen = {}]

\* get_residuals(vec) or get_likelihood(vec) is entered (lines 259, 264)
Begin(t, op, vec) ==
    /\ threads[t].pc = "idle"
    /\ threads' = [threads EXCEPT ![t] = AfterKey([@ EXCEPT !.op = op, !.vec = vec], 1)]
    /\ UNCHANGED <<Config, dbf_symbols, v_namespace, ret, repeated>>

\* line 89: if not hasattr(v, key)
HasAttr(t) ==
    /\ threads[t].pc = "hasattr"
    /\ threads' = [threads EXCEPT ![t].pc =
           IF symbols_to_fit[threads[t].i] \in v_namespace THEN "pop" ELSE "setattr"]
    /\ UNCHANGED <<Config, dbf_symbols, v_namespace, ret, repeated>>

\* line 90: setattr(v, key, v.IndependentPotential(key))
SetAttr(t) ==
    /\ threads[t].pc = "setattr"
    /\ v_namespace' = v_namespace \cup {symbols_to_fit[threads[t].i]}
    /\ threads' = [threads EXCEPT ![t].pc = "pop"]
    /\ UNCHANGED <<Config, dbf_symbols, ret, repeated>>

\* line 93: dbf.symbols.pop(key, None)
Pop(t) ==
    /\ threads[t].pc = "pop"
    /\ dbf_symbols' = PopOne(dbf_symbols, symbols_to_fit[threads[t].i])
    /\ threads' = [threads EXCEPT ![t] = AfterKey(@, threads[t].i + 1)]
    /\ UNCHANGED <<Config, v_namespace, ret, repeated>>

\* line 113: the reference Workspace of dataset j
BuildReference(t) ==
    /\ threads[t].pc = "reference"
    /\ threads' = [threads EXCEPT ![t].pc = "sample", ![t].s = 1,
                                  ![t].seen = {dbf_symbols}]
    /\ UNCHANGED <<Config, dbf_symbols, v_namespace, ret, repeated>>

\* lines 136-147: the Workspace and the solve of sample s of dataset j
SolveSample(t) ==
    /\ threads[t].pc = "sample"
    /\ threads' = [threads EXCEPT
           ![t].seen = @ \cup {dbf_symbols},
           ![t].s = @ + 1,
           ![t].pc = IF threads[t].s >= Len(conditions_list(activity_datasets[threads[t].j]))
                     THEN "target" ELSE "sample"]
    /\ UNCHANGED <<Config, dbf_symbols, v_namespace, ret, repeated>>

\* lines 150-159: the target of dataset j, its residuals and gradients
Target(t) ==
    /\ threads[t].pc = "target"
    /\ \E seen \in {threads[t].seen \cup {dbf_symbols}} :
         \E e \in {DatasetEval(CHOOSE symbols \in seen : TRUE, dbf_phases, dbf_elements,
                               kw_phases, activity_datasets[threads[t].j],
                               MakeParameters(symbols_to_fit, threads[t].vec),
                               self_weight)} :
           threads' = [threads EXCEPT
               ![t].acc = Accumulate(@, e),
               ![t].torn = @ \/ Cardinality(seen) # 1,
               ![t].seen = {},
               ![t].j = @ + 1,
               ![t].pc = IF e.raised \/ threads[t].j >= Len(activity_datasets)
                         THEN "return" ELSE "reference"]
    /\ UNCHANGED <<Config, dbf_symbols, v_namespace, ret, repeated>>

\* what a call returns from the accumulators of its loop
ResultOf(op, vec, acc) ==
    LET r == [raised |-> acc.raised,
              residuals |-> IF acc.raised THEN <<>> ELSE acc.residuals,
              weights |-> IF acc.raised THEN <<>> ELSE acc.weights,
              gradients |-> IF acc.raised THEN <<>> ELSE acc.gradients]
        e == calculate_activity_error(r, Len(MakeParameters(symbols_to_fit, vec).keys))
    IN  IF op = "get_residuals"
        THEN [op |-> op, params |-> vec, raised |-> r.raised, residuals |-> r.residuals,
              weights |-> r.weights, likelihood |-> LFin(<<>>), grads |-> Zeros(0),
              calls |-> acc.calls]
        ELSE [op |-> op, params |-> vec, raised |-> e.raised, residuals |-> r.residuals,
              weights |-> r.weights, likelihood |-> e.likelihood, grads |-> e.grads,
              calls |-> acc.calls]

\* lines 161, 212, 260, 265: the call returns
Return(t) ==
    /\ threads[t].pc = "return"
    /\ \E res \in {ResultOf(threads[t].op, threads[t].vec, threads[t].acc)} :
         threads' = [threads EXCEPT ![t].pc = "done", ![t].result = res]
    /\ UNCHANGED <<Config, dbf_symbols, v_namespace, ret, repeated>>

NextConc ==
    \/ \E t \in Callers, vec \in Vectors : Begin(t, "get_residuals", vec)
    \/ \E t \in Callers, vec \in Vectors : Begin(t, "get_likelihood", vec)
    \/ \E t \in Callers : HasAttr(t)
    \/ \E t \in Callers : SetAttr(t)
    \/ \E t \in Callers : Pop(t)
    \/ \E t \in Callers : BuildReference(t)
    \/ \E t \in Callers : SolveSample(t)
    \/ \E t \in Callers : Target(t)
    \/ \E t \in Callers : Return(t)

SpecConc == InitConc /\ [][NextConc]_vars

(***************************************************************************)
(* What the claims speak of, stated from the datasets themselves.          *)
(***************************************************************************)
Called == ret.op # "none"
Returned == Called /\ ~ret.raised
NFit == Len(symbols_to_fit)

IsActivityTag(tag) == \E c \in {"A", "B", "C"} : tag = <<"A", "C", "R", "_", c>>

\* the records of the store that match the selector, in store order
Matching ==
    SelectSeq(datasets, LAMBDA ds :
        /\ IsActivityTag(ds.output)
        /\ \A i \in DOMAIN ds.components :
              \E j \in DOMAIN kw_comps : kw_comps[j] = ds.components[i])

VarOf == [P |-> "v.P", T |-> "v.T", X_A |-> "v.X(A)", X_B |-> "v.X(B)", X_C |-> "v.X(C)"]

\* conditions with the parameter values of a vector as overrides
WithOverrides(conds, vec) ==
    [c \in DOMAIN conds \cup Range(symbols_to_fit) |->
        IF \E j \in DOMAIN symbols_to_fit : symbols_to_fit[j] = c
        THEN vec[CHOOSE j \in DOMAIN symbols_to_fit : symbols_to_fit[j] = c]
        ELSE conds[c]]

\* the sample points of a dataset: values taken pressure by pressure,
\* temperature by temperature, composition by composition
Points(ds) ==
    Concat([pi \in DOMAIN ds.values |->
        Concat([ti \in DOMAIN ds.values[pi] |->
            [xi \in DOMAIN ds.values[pi][ti] |->
                [a |-> ds.values[pi][ti][xi],
                 T |-> ds.conditions.T[ti],
                 conds |-> [c \in {VarOf[k] : k \in DOMAIN ds.conditions} |->
                    IF c = "v.P" THEN ds.conditions.P[pi]
                    ELSE IF c = "v.T" THEN ds.conditions.T[ti]
                    ELSE ds.conditions[CHOOSE k \in DOMAIN ds.conditions : VarOf[k] = c][xi]]]]])])

\* the active phases that the components of a dataset can form
SubsystemPhases(ds) ==
    SelectSeq(kw_phases, LAMBDA ph :
        \A i \in DOMAIN dbf_phases[ph] :
            \E j \in DOMAIN ds.components : ds.components[j] \in dbf_phases[ph][i])

ExpectedSample(ds, pt, vec) ==
    [components |-> ds.components, phases |-> SubsystemPhases(ds),
     conditions |-> WithOverrides(pt.conds, vec)]

ExpectedReference(ds, vec) ==
    [components |-> ds.components, phases |-> ds.reference_state.phases,
     conditions |-> WithOverrides(
        [c \in {VarOf[k] : k \in DOMAIN ds.reference_state.conditions} |->
            ds.reference_state.conditions[
                CHOOSE k \in DOMAIN ds.reference_state.conditions : VarOf[k] = c]],
        vec)]

Entry(kind, ds, w) ==
    [kind |-> kind, dataset |-> ds.reference, components |-> w.components,
     phases |-> w.phases, conditions |-> w.conditions]

\* one item per sample of every matching dataset, in store and sample order
Samples ==
    Concat([k \in DOMAIN Matching |->
        [i \in DOMAIN Points(Matching[k]) |->
            [ds |-> Matching[k], pt |-> Points(Matching[k])[i]]]])

ExpectedCalls(vec) ==
    Concat([k \in DOMAIN Matching |->
        <<Entry("reference", Matching[k], ExpectedReference(Matching[k], vec))>>
        \o [i \in DOMAIN Points(Matching[k]) |->
              Entry("sample", Matching[k],
                    ExpectedSample(Matching[k], Points(Matching[k])[i], vec))]])

\* the chemical potential of the component of interest of a dataset
MuOf(ds, w) == WksGetMU(dbf_symbols, w, ds.output[5])

ExpectedResidual(ds, pt, vec) ==
    FSub(MuOf(ds, ExpectedSample(ds, pt, vec)),
         FAdd(FMul(FMul(R, Fin(pt.T)), FLog(pt.a)),
              MuOf(ds, ExpectedReference(ds, vec))))

\* the data_weight the constructor was given
ConfiguredWeight ==
    IF weight_arg = None THEN 1
    ELSE IF "ACR" \in DOMAIN weight_arg THEN weight_arg.ACR ELSE 1

DatasetWeight(ds) == IF "weight" \in DOMAIN ds THEN ds.weight ELSE 1

\* the result of the same call on the object as constructed
FirstCall(vec) ==
    calculate_activity_residuals(DbSymbols0, Namespace0, dbf_phases, dbf_elements,
        kw_comps, kw_phases, datasets, MakeParameters(symbols_to_fit, vec), self_weight)

(***************************************************************************)
(* The claims.                                                             *)
(***************************************************************************)

\* C1: whenever the aggregate log-likelihood is not finite (a residual is
\* not finite or a weight is not positive), get_likelihood returns
\* negative infinity and a zero gradient with one entry per fit parameter.
C1_NonFiniteGivesSentinel ==
    (/\ ret.op = "get_likelihood"
     /\ \/ ret.raised
        \/ \E j \in DOMAIN ret.residuals :
              ~IsFinite(ret.residuals[j]) \/ ret.weights[j].n <= 0)
    => /\ ~ret.raised
       /\ ret.likelihood = LNegInf
       /\ Len(ret.grads.data) = NFit
       /\ \A p \in DOMAIN ret.grads.data : ret.grads.data[p] = Fin(0)

\* a measured activity of 0: the likelihood is -inf, which is no NaN, and
\* the gradient that comes back has entries that are not finite
C1_Witness ==
    /\ ret.op = "get_likelihood" /\ ~ret.raised
    /\ NFit >= 2
    /\ \E j \in DOMAIN ret.residuals : ret.residuals[j] = PosInf
    /\ ret.likelihood = LNegInf
    /\ \E p \in DOMAIN ret.grads.data : ~IsFinite(ret.grads.data[p])

\* C2: when no record of the store matches the selector, get_residuals
\* returns two empty sequences and get_likelihood returns 0.0 with a zero
\* gradient that has one entry per fit parameter; nothing is raised.
C2_NoMatchGivesZero ==
    (Called /\ Matching = <<>>)
    => /\ ~ret.raised
       /\ ret.residuals = <<>> /\ ret.weights = <<>>
       /\ ret.op = "get_likelihood"
            => (ret.likelihood = LFin(<<>>) /\ ret.grads = Zeros(NFit))

\* a store without a matching record and a fit parameter: the gradient
\* that comes back is empty
C2_Witness ==
    /\ ret.op = "get_likelihood" /\ ~ret.raised
    /\ datasets # <<>> /\ Matching = <<>>
    /\ NFit >= 1
    /\ ret.likelihood = LFin(<<>>)
    /\ ret.grads.data = <<>>

\* C3, as claimed: no call changes the database, its symbol table, the
\* dataset store, the component and phase lists or the shared namespace.
C3_NothingChanges ==
    [][/\ Config' = Config
       /\ dbf_symbols' = dbf_symbols
       /\ v_namespace' = v_namespace]_vars

\* C3, amended: every call leaves the dataset store, the component and
\* phase lists, the weight and the database's phases and elements alone;
\* it removes the fit parameters from the database's symbol table and adds
\* their names to the shared namespace, and what it leaves behind does not
\* depend on the trial values.
C3_FrameOfACall ==
    [][/\ Config' = Config
       /\ dbf_symbols' =
            [sym \in {x \in DOMAIN dbf_symbols :
                        \A j \in DOMAIN symbols_to_fit : symbols_to_fit[j] # x} |->
                dbf_symbols[sym]]
       /\ v_namespace' = v_namespace \cup {symbols_to_fit[j] : j \in DOMAIN symbols_to_fit}]_vars

C3_Witness ==
    /\ Called
    /\ "VV0000" \notin DOMAIN dbf_symbols
    /\ "VV0000" \in v_namespace
    /\ "GHSERAA" \in DOMAIN dbf_symbols

\* C5: get_residuals with a given vector returns what it returns on the
\* object as constructed, however many calls were made before: two calls
\* with the same vector return the same residuals and weights.
C5_SameResultEveryCall ==
    ret.op = "get_residuals"
    => /\ ret.raised = FirstCall(ret.params).raised
       /\ ret.residuals = FirstCall(ret.params).residuals
       /\ ret.weights = FirstCall(ret.params).weights

C5_Witness ==
    /\ ret.op = "get_residuals" /\ repeated /\ ~ret.raised
    /\ NFit >= 1
    /\ Len(ret.residuals) >= 2
    /\ \A j \in DOMAIN ret.residuals : IsFinite(ret.residuals[j])

\* C6: the residual of sample i of a matching dataset is the predicted
\* chemical potential at the i-th condition tuple minus
\* R * T_i * ln(a_i) + the chemical potential of that dataset's reference.
C6_ResidualFormula ==
    Returned
    => ret.residuals =
         [j \in DOMAIN Samples |->
             ExpectedResidual(Samples[j].ds, Samples[j].pt, ret.params)]

C6_Witness ==
    /\ Returned /\ NFit >= 1
    /\ Len(Matching) >= 2
    /\ Matching[1].reference_state # Matching[2].reference_state
    /\ \A j \in DOMAIN ret.residuals : IsFinite(ret.residuals[j])

\* C7: when the likelihood is finite the gradient is a vector with one
\* entry per fit parameter, entry p being the sum over all samples of
\* -residual * (predicted_dmu[p] - reference_dmu[p]) / weight^2.
C7_GradientFormula ==
    (ret.op = "get_likelihood" /\ ~ret.raised /\ ret.likelihood.k = "fin")
    => /\ ret.grads.ndim = 1
       /\ Len(ret.grads.data) = NFit
       /\ \A p \in 1..NFit :
            ret.grads.data[p] =
              LET d == [j \in DOMAIN Samples |->
                          FSub(WksGetDMU(dbf_symbols,
                                         ExpectedSample(Samples[j].ds, Samples[j].pt, ret.params),
                                         Samples[j].ds.output[5], symbols_to_fit[p]),
                               WksGetDMU(dbf_symbols,
                                         ExpectedReference(Samples[j].ds, ret.params),
                                         Samples[j].ds.output[5], symbols_to_fit[p]))]
              IN  FSum([j \in DOMAIN ret.residuals |->
                          FDiv(FMul(FNeg(ret.residuals[j]), d[j]),
                               FMul(ret.weights[j], ret.weights[j]))])

\* one fit parameter: what comes back is a number, not a vector
C7_Witness ==
    /\ ret.op = "get_likelihood" /\ ~ret.raised
    /\ ret.likelihood.k = "fin"
    /\ NFit = 1
    /\ Len(ret.residuals) >= 2
    /\ ret.grads.ndim = 0

\* C8: every sample of a dataset gets the weight 500 / data_weight /
\* dataset weight, with 1 for a missing data_weight or dataset weight, and
\* for positive values a larger data_weight gives a smaller weight.
C8_Weights ==
    Returned
    => /\ ret.weights =
            [j \in DOMAIN Samples |->
                Rat(500, ConfiguredWeight * DatasetWeight(Samples[j].ds))]
       /\ \A k \in DOMAIN Matching : \A more \in 1..2 :
            (ConfiguredWeight > 0 /\ DatasetWeight(Matching[k]) > 0)
            => FLess(sample_weight(ConfiguredWeight + more, Matching[k]),
                     sample_weight(self_weight, Matching[k]))

C8_Witness ==
    /\ Returned
    /\ weight_arg # None /\ "ACR" \in DOMAIN weight_arg /\ weight_arg.ACR = 2
    /\ \E j \in DOMAIN ret.weights : ret.weights[j] = Fin(125)
    /\ \E j \in DOMAIN ret.weights : ret.weights[j] = Fin(250)

\* C9: in one evaluation the oracle is set up, for every matching dataset
\* in turn, once for the reference state (reference conditions and phases,
\* with the parameter values) and then once per sample point (the point's
\* conditions with the parameter values, on the subsystem's phases).
C9_OracleCalls ==
    Returned => ret.calls = ExpectedCalls(ret.params)

C9_Witness ==
    /\ Returned /\ NFit >= 1
    /\ Len(Matching) = 2
    /\ Len(ret.calls) = 6
    /\ \E j \in DOMAIN ret.calls : ret.calls[j].phases # kw_phases

\* C10: the residuals come from exactly the matching datasets, N residuals
\* and N weights for the N scalar entries of a dataset's values, in store
\* order and then sample order.
C10_Selection ==
    Returned
    => /\ Len(ret.residuals) = Len(ret.weights)
       /\ Len(ret.residuals) =
            ISum([k \in DOMAIN Matching |->
                    ISum([pi \in DOMAIN Matching[k].values |->
                            ISum([ti \in DOMAIN Matching[k].values[pi] |->
                                    Len(Matching[k].values[pi][ti])])])])
       /\ [j \in DOMAIN ret.residuals |->
             SelectSeq(ret.calls, LAMBDA c : c.kind = "sample")[j].dataset]
          = [j \in DOMAIN Samples |-> Samples[j].ds.reference]

C10_Witness ==
    /\ Returned
    /\ Len(Matching) = 1 /\ Len(datasets) = 2
    /\ \A i \in DOMAIN datasets : IsActivityTag(datasets[i].output)
    /\ Len(ret.residuals) = 2

\* the result of a call made alone on the object as constructed
Alone(op, vec) ==
    LET r == FirstCall(vec)
    IN  ResultOf(op, vec, [raised |-> r.raised, residuals |-> r.residuals,
                           weights |-> r.weights, gradients |-> r.gradients,
                           calls |-> r.calls])

\* C4: under every interleaving of the steps of concurrent calls, the
\* registration and removal of symbols included, a call that has returned
\* has returned what the same call returns when it runs alone.
C4_ConcurrentLikeAlone ==
    \A t \in DOMAIN threads :
        threads[t].pc = "done"
        => /\ ~threads[t].torn
           /\ threads[t].result = Alone(threads[t].op, threads[t].vec)

C4_Witness ==
    /\ DOMAIN threads = Callers
    /\ threads["c1"].pc = "done"
    /\ Len(threads["c1"].result.residuals) >= 2
    /\ threads["c2"].pc = "pop"
    /\ threads["c2"].i = 1
    /\ threads["c1"].vec # threads["c2"].vec

====
